---- MODULE Spec2Model ----
(***************************************************************************)
(* PageRank (src/pagerank.py): the transition model of the random surfer,  *)
(* the sampling estimator and the iterative estimator.                     *)
(*                                                                         *)
(* Pages are the integers 1..N, in the order the corpus dictionary lists   *)
(* them.  Python's floats are modelled as exact rationals <<num, den>> in  *)
(* lowest terms with den > 0, so that sums are compared exactly.           *)
(***************************************************************************)
EXTENDS Integers, Sequences, FiniteSets, TLC

VARIABLES
    corpus,          \* page -> set of pages it links to (crawl's result)
    damping_factor,  \* the damping factor, a rational
    n,               \* sample_pagerank's n
    pc,              \* position in the running function
    page_rank,       \* sample: visit counters, then ranks; iterate: ranks
    next_page,       \* sample_pagerank's next_page (NoPage before line 96)
    model,           \* sample_pagerank's model, the last transition distribution
    step,            \* the loop variable of `for _ in range(1, n)`
    calculated_pr,   \* iterate_pagerank's calculated_pr
    condition        \* iterate_pagerank's condition

vars == <<corpus, damping_factor, n, pc, page_rank, next_page, model, step,
          calculated_pr, condition>>

----------------------------------------------------------------------------
(* Bounds of the model. *)

MaxPages == 3
MaxWalkPages == 2
MaxN == 3
MaxNegN == 1
MaxDenominator == 10000000

----------------------------------------------------------------------------
(* Exact rational arithmetic standing for Python's float arithmetic. *)

Abs(x) == IF x < 0 THEN -x ELSE x

RECURSIVE GCD(_, _)
GCD(a, b) == IF b = 0 THEN a ELSE GCD(b, a % b)

Rat(num, den) ==
    LET s == IF den < 0 THEN -1 ELSE 1
        g == GCD(Abs(num), Abs(den))
    IN  <<(s * num) \div g, (s * den) \div g>>

Zero == Rat(0, 1)
One == Rat(1, 1)

RatAdd(a, b) ==
    LET g == GCD(a[2], b[2])
        l == (a[2] \div g) * b[2]
    IN  Rat(a[1] * (l \div a[2]) + b[1] * (l \div b[2]), l)

RatNeg(a) == <<-a[1], a[2]>>

RatSub(a, b) == RatAdd(a, RatNeg(b))

RatMul(a, b) ==
    LET g1 == GCD(Abs(a[1]), b[2])
        g2 == GCD(Abs(b[1]), a[2])
    IN  Rat((a[1] \div g1) * (b[1] \div g2), (a[2] \div g2) * (b[2] \div g1))

\* a / k for an integer k > 0
RatDivInt(a, k) == RatMul(a, <<1, k>>)

RatAbs(a) == <<Abs(a[1]), a[2]>>

\* a > b; when b = 1/k the test num * k > den is taken as num > den \div k,
\* which is the same on integers and keeps the product out of the way.
RatGt(a, b) ==
    IF b[1] = 1 THEN a[1] > a[2] \div b[2]
    ELSE a[1] * b[2] > b[1] * a[2]

----------------------------------------------------------------------------
(* Program constants. *)

DAMPING == Rat(17, 20)
Tolerance == Rat(1, 1000)

NoPage == 0

----------------------------------------------------------------------------
(* Inputs. *)

\* crawl: every link set holds pages of the corpus only, never the page itself.
CorporaUpTo(k) ==
    UNION { { c \in [1..N -> SUBSET (1..N)] : \A p \in 1..N : p \notin c[p] }
            : N \in 0..k }

SampleDampings == {Zero, Rat(1, 2), DAMPING, One}
IterateDampings == {Zero, Rat(1, 4), Rat(1, 2), One}
SampleCounts == (0 - MaxNegN)..MaxN

Keys == DOMAIN corpus
NumPages == Cardinality(Keys)

----------------------------------------------------------------------------
(* transition_model *)

\* Variant: the boost of a linked page divided by num_pages, not num_links.
transition_model_boost_by_pages(c, page, d) ==
    LET num_pages == Cardinality(DOMAIN c)
        num_links == Cardinality(c[page])
        base == [i \in DOMAIN c |-> RatDivInt(RatSub(One, d), num_pages)]
    IN  IF num_links > 0
        THEN [i \in DOMAIN c |->
                 IF i \in c[page]
                 THEN RatAdd(base[i], RatDivInt(d, num_pages))
                 ELSE base[i]]
        ELSE [i \in DOMAIN c |-> Rat(1, num_pages)]

\* Variant: a linked page's entry assigned (=) where line 73 adds (+=).
transition_model_assign(c, page, d) ==
    LET num_pages == Cardinality(DOMAIN c)
        num_links == Cardinality(c[page])
        base == [i \in DOMAIN c |-> RatDivInt(RatSub(One, d), num_pages)]
    IN  IF num_links > 0
        THEN [i \in DOMAIN c |->
                 IF i \in c[page]
                 THEN RatDivInt(d, num_links)
                 ELSE base[i]]
        ELSE [i \in DOMAIN c |-> Rat(1, num_pages)]

transition_model(c, page, d) ==
    LET num_pages == Cardinality(DOMAIN c)
        num_links == Cardinality(c[page])
        base == [i \in DOMAIN c |-> RatDivInt(RatSub(One, d), num_pages)]
    IN  IF num_links > 0
        THEN [i \in DOMAIN c |->
                 IF i \in c[page]
                 THEN RatAdd(base[i], RatDivInt(d, num_links))
                 ELSE base[i]]
        ELSE [i \in DOMAIN c |-> Rat(1, num_pages)]

InitTransition ==
    /\ corpus \in CorporaUpTo(MaxPages)
    /\ damping_factor \in SampleDampings
    /\ next_page \in DOMAIN corpus
    /\ pc = "transition"
    /\ model = <<>>
    /\ n = 0
    /\ page_rank = <<>>
    /\ step = 1
    /\ calculated_pr = <<>>
    /\ condition = TRUE

\* transition_model(corpus, next_page, damping_factor), as line 101 calls it.
ApplyTransition ==
    /\ pc = "transition"
    /\ model' = transition_model(corpus, next_page, damping_factor)
    /\ pc' = "transition_returned"
    /\ UNCHANGED <<corpus, damping_factor, n, page_rank, next_page, step,
                   calculated_pr, condition>>

NextTransition == ApplyTransition

SpecTransition == InitTransition /\ [][NextTransition]_vars

----------------------------------------------------------------------------
(* sample_pagerank *)

\* Variant: range(1, n + 1), one more pass.
LoopRunsToN(i, count) == i <= count

\* `for _ in range(1, n)`: the body runs for _ = 1 .. n-1.
LoopContinues(i, count) == i < count

\* random.choices(list(model), model.values(), k=1)[0]: a page of positive weight.
Drawable(m) == { q \in DOMAIN m : RatGt(m[q], Zero) }

\* Variant: the draw made before the increment, so the drawn page is counted.
TalliedDrawn(current, drawn) == drawn

\* the page whose counter a loop step increments
Tallied(current, drawn) == current

InitSample ==
    /\ corpus \in CorporaUpTo(MaxWalkPages)
    /\ damping_factor \in SampleDampings
    /\ n \in SampleCounts
    /\ pc = "first"
    /\ page_rank = [key \in DOMAIN corpus |-> 0]
    /\ next_page = NoPage
    /\ model = <<>>
    /\ step = 1
    /\ calculated_pr = <<>>
    /\ condition = TRUE

\* line 96: random.choice raises IndexError on an empty list.
ChooseFirst ==
    /\ pc = "first"
    /\ IF Keys = {}
       THEN /\ pc' = "raised"
            /\ next_page' = next_page
       ELSE /\ \E p \in Keys : next_page' = p
            /\ pc' = "loop"
    /\ UNCHANGED <<corpus, damping_factor, n, page_rank, model, step,
                   calculated_pr, condition>>

\* lines 98-103: one pass of the loop body.
SampleStep ==
    /\ pc = "loop"
    /\ LoopContinues(step, n)
    /\ LET m == transition_model(corpus, next_page, damping_factor)
       IN  /\ model' = m
           /\ \E q \in Drawable(m) :
                 /\ next_page' = q
                 /\ page_rank' = [page_rank EXCEPT
                                     ![Tallied(next_page, q)] = @ + 1]
    /\ step' = step + 1
    /\ UNCHANGED <<corpus, damping_factor, n, pc, calculated_pr, condition>>

\* lines 106-109: page_rank[key] /= n raises ZeroDivisionError when n = 0.
Normalize ==
    /\ pc = "loop"
    /\ ~LoopContinues(step, n)
    /\ IF Keys # {} /\ n = 0
       THEN /\ pc' = "raised"
            /\ page_rank' = page_rank
       ELSE /\ page_rank' = [key \in Keys |-> Rat(page_rank[key], n)]
            /\ pc' = "returned"
    /\ UNCHANGED <<corpus, damping_factor, n, next_page, model, step,
                   calculated_pr, condition>>

NextSample == ChooseFirst \/ SampleStep \/ Normalize

SpecSample == InitSample /\ [][NextSample]_vars

----------------------------------------------------------------------------
(* iterate_pagerank *)

\* Variant: a page without links gives its share to the other pages only.
RECURSIVE SumLinksOthersOnly(_, _, _, _)
SumLinksOthersOnly(c, pr, current_page, k) ==
    IF k = 0 THEN Zero
    ELSE LET before == SumLinksOthersOnly(c, pr, current_page, k - 1)
         IN  IF current_page # k /\ current_page \in c[k]
             THEN RatAdd(before, RatDivInt(pr[k], Cardinality(c[k])))
             ELSE IF current_page # k /\ c[k] = {}
                  THEN RatAdd(before, RatDivInt(pr[k], Cardinality(DOMAIN c)))
                  ELSE before

\* lines 129-136: sum_links for current_page, over the pages 1..k of the corpus
\* in order, read from the rank mapping pr.
RECURSIVE SumLinks(_, _, _, _)
SumLinks(c, pr, current_page, k) ==
    IF k = 0 THEN Zero
    ELSE LET before == SumLinks(c, pr, current_page, k - 1)
             linked == IF current_page # k /\ current_page \in c[k]
                       THEN RatAdd(before, RatDivInt(pr[k], Cardinality(c[k])))
                       ELSE before
         IN  IF c[k] = {}
             THEN RatAdd(linked, RatDivInt(pr[k], Cardinality(DOMAIN c)))
             ELSE linked

\* line 138
NewRank(c, d, pr, current_page) ==
    LET N == Cardinality(DOMAIN c)
    IN  RatAdd(RatDivInt(RatSub(One, d), N),
               RatMul(d, SumLinks(c, pr, current_page, N)))

\* Variant: each new rank written into the mapping the next pages read
\* (an in-place, Gauss-Seidel sweep).
RECURSIVE InPlaceUpTo(_, _, _, _)
InPlaceUpTo(c, d, pr, k) ==
    IF k = 0 THEN pr
    ELSE LET prev == InPlaceUpTo(c, d, pr, k - 1)
         IN  [prev EXCEPT ![k] = NewRank(c, d, prev, k)]

SweepRanksInPlace(c, d, pr) == InPlaceUpTo(c, d, pr, Cardinality(DOMAIN c))

\* lines 128-139: calculated_pr after the first loop; page_rank is only read.
SweepRanks(c, d, pr) == [current_page \in DOMAIN c |-> NewRank(c, d, pr, current_page)]

\* line 144
Exceeds(old, new) == RatGt(RatAbs(RatSub(old, new)), Tolerance)

\* Variant: condition assigned by every page, so the last page decides.
ChangedLastOnly(pr, calc) ==
    LET last == Cardinality(DOMAIN pr)
    IN  last > 0 /\ Exceeds(pr[last], calc[last])

\* Variant: line 141 missing, condition is never cleared.
ChangedNeverCleared(pr, calc) == TRUE

\* lines 141-145: condition after the second loop.
Changed(pr, calc) == \E current_page \in DOMAIN pr : Exceeds(pr[current_page], calc[current_page])

\* the arithmetic of a sweep stays inside TLC's integers
InRange(pr) == \A p \in DOMAIN pr : pr[p][2] <= MaxDenominator

InitIterate ==
    /\ corpus \in CorporaUpTo(MaxPages)
    /\ damping_factor \in IterateDampings
    /\ pc = "iterate"
    /\ page_rank = <<>>
    /\ calculated_pr = <<>>
    /\ condition = TRUE
    /\ n = 0
    /\ next_page = NoPage
    /\ model = <<>>
    /\ step = 1

\* lines 120-125: 1 / N is evaluated once per page of the corpus.
InitRanks ==
    /\ pc = "iterate"
    /\ IF \E page \in Keys : NumPages = 0
       THEN /\ pc' = "raised"
            /\ page_rank' = page_rank
       ELSE /\ page_rank' = [page \in Keys |-> Rat(1, NumPages)]
            /\ pc' = "sweep"
    /\ UNCHANGED <<corpus, damping_factor, n, next_page, model, step,
                   calculated_pr, condition>>

\* lines 127-139
ComputeSweep ==
    /\ pc = "sweep"
    /\ condition
    /\ InRange(page_rank)
    /\ calculated_pr' = SweepRanks(corpus, damping_factor, page_rank)
    /\ pc' = "compare"
    /\ UNCHANGED <<corpus, damping_factor, n, page_rank, next_page, model,
                   step, condition>>

\* lines 141-149: compare, adopt, then the loop test of line 127.
CompareAdopt ==
    /\ pc = "compare"
    /\ condition' = Changed(page_rank, calculated_pr)
    /\ page_rank' = calculated_pr
    /\ pc' = IF condition' THEN "sweep" ELSE "returned"
    /\ UNCHANGED <<corpus, damping_factor, n, next_page, model, step,
                   calculated_pr>>

NextIterate == InitRanks \/ ComputeSweep \/ CompareAdopt

SpecIterate == InitIterate /\ [][NextIterate]_vars

\* A step of the function moves its position on.  Every step of NextIterate
\* is such a step, and one is possible exactly where NextIterate is enabled.
Advance ==
    /\ \/ pc = "iterate"
       \/ pc = "sweep" /\ condition /\ InRange(page_rank)
       \/ pc = "compare"
    /\ pc' \in {"sweep", "compare", "returned", "raised"}

\* The function runs on to its end: no step of it waits on anything.
FairIterate == SpecIterate /\ WF_pc(Advance)

----------------------------------------------------------------------------
(* Either estimator, or the transition model alone, on some input. *)

Init == InitTransition \/ InitSample \/ InitIterate

Next == NextTransition \/ NextSample \/ NextIterate

Spec == Init /\ [][Next]_vars

----------------------------------------------------------------------------
(* Sums used to state the properties. *)

RECURSIVE RatTotalTo(_, _)
RatTotalTo(f, k) == IF k = 0 THEN Zero ELSE RatAdd(RatTotalTo(f, k - 1), f[k])

RatTotal(f) == RatTotalTo(f, Cardinality(DOMAIN f))

RECURSIVE CountTotalTo(_, _)
CountTotalTo(f, k) == IF k = 0 THEN 0 ELSE CountTotalTo(f, k - 1) + f[k]

CountTotal(f) == CountTotalTo(f, Cardinality(DOMAIN f))

RECURSIVE SumOver(_, _)
SumOver(S, t) ==
    IF S = {} THEN Zero
    ELSE LET q == CHOOSE x \in S : TRUE
         IN  RatAdd(t[q], SumOver(S \ {q}, t))

----------------------------------------------------------------------------
(* transition_model *)

\* C1: the distribution transition_model returns has exactly the corpus's
\* keys, no negative value, and its values sum to exactly 1.
C1_TransitionIsDistribution ==
    pc = "transition_returned" =>
        /\ DOMAIN model = Keys
        /\ \A q \in Keys : model[q][1] >= 0 /\ model[q][2] > 0
        /\ RatTotal(model) = One

C1_Witness ==
    /\ pc = "transition_returned"
    /\ NumPages = 3
    /\ Cardinality(corpus[next_page]) = 1
    /\ damping_factor = DAMPING

\* The value (1-d)/N + d/L for d = a/b, N pages and L links is
\* ((b-a)L + aN) / (bNL); (1-d)/N is (b-a) / (bN).
IsFraction(r, num, den) == r[1] * den = num * r[2]

\* C2: for a page with L > 0 links a linked page gets (1-d)/N + d/L and any
\* other page (1-d)/N; for a page without links every page gets 1/N.
C2_TransitionMatchesReference ==
    pc = "transition_returned" =>
        LET a == damping_factor[1]
            b == damping_factor[2]
            N == NumPages
            L == Cardinality(corpus[next_page])
        IN  \A q \in Keys :
               IF L > 0
               THEN IF q \in corpus[next_page]
                    THEN IsFraction(model[q], (b - a) * L + a * N, b * N * L)
                    ELSE IsFraction(model[q], b - a, b * N)
               ELSE IsFraction(model[q], 1, N)

C2_Witness ==
    /\ pc = "transition_returned"
    /\ NumPages = 3
    /\ Cardinality(corpus[next_page]) = 2
    /\ damping_factor = DAMPING
    /\ \E q \in Keys : q \notin corpus[next_page] /\ model[q] = Rat(1, 20)

----------------------------------------------------------------------------
(* sample_pagerank *)

C6_InvalidInputRaises ==
    (Keys = {} \/ n <= 0) => pc # "returned"

\* C10 as claimed: a loop step tallies the page it draws by weighted choice,
\* so the starting page is never counted.
C10_TalliesDrawnPages ==
    [][(pc = "loop" /\ step' = step + 1) =>
          page_rank' = [page_rank EXCEPT ![next_page'] = @ + 1]]_vars

\* C10 amended: a loop step tallies the page that was current before its
\* draw, so the first step counts the starting page and the page drawn last
\* is never counted.
C10_TalliesCurrentPage ==
    [][(pc = "loop" /\ step' = step + 1) =>
          page_rank' = [page_rank EXCEPT ![next_page] = @ + 1]]_vars

\* after the first step: the start is counted, the page just drawn is not
C10_Witness ==
    /\ pc = "loop"
    /\ step = 2
    /\ page_rank[next_page] = 0
    /\ \E start \in Keys : page_rank[start] = 1

----------------------------------------------------------------------------
(* iterate_pagerank *)

\* C4: on a non-empty corpus the rank mapping sums to 1 after initialization
\* and after every sweep, and so does the mapping returned.
C4_RanksSumToOne ==
    Keys # {} =>
        /\ pc \in {"sweep", "returned"} => RatTotal(page_rank) = One
        /\ pc = "compare" => RatTotal(calculated_pr) = One

C4_Witness ==
    /\ pc = "returned"
    /\ NumPages = 3
    /\ damping_factor = Rat(1, 2)
    /\ \E q \in Keys : corpus[q] = {}
    /\ \E p, q \in Keys : page_rank[p] # page_rank[q]

\* C5: iterate_pagerank never returns a mapping for an empty corpus.
C5_EmptyCorpusRaises ==
    Keys = {} => pc # "returned"

\* The recurrence for page p over the rank mapping old.
JacobiRank(old, p) ==
    LET N == NumPages
        incoming == { q \in Keys : p \in corpus[q] }
        dangling == { q \in Keys : corpus[q] = {} }
        fromLinks == SumOver(incoming,
                         [q \in incoming |-> RatDivInt(old[q], Cardinality(corpus[q]))])
        fromDangling == SumOver(dangling, [q \in dangling |-> RatDivInt(old[q], N)])
    IN  RatAdd(RatDivInt(RatSub(One, damping_factor), N),
               RatMul(damping_factor, RatAdd(fromLinks, fromDangling)))

\* C7: a sweep leaves the rank mapping as it stood and computes every new
\* rank from it: new[p] = (1-d)/N + d * (sum of old[q]/|links(q)| over the
\* pages q linking to p + sum of old[q]/N over the pages q without links).
C7_SweepIsJacobi ==
    [][(pc = "sweep" /\ pc' = "compare") =>
          /\ page_rank' = page_rank
          /\ DOMAIN calculated_pr' = Keys
          /\ \A p \in Keys : calculated_pr'[p] = JacobiRank(page_rank, p)]_vars

C7_Witness ==
    /\ pc = "compare"
    /\ NumPages = 3
    /\ damping_factor = Rat(1, 2)
    /\ \E q \in Keys : corpus[q] = {}
    /\ \E p, q \in Keys : page_rank[p] # page_rank[q]
    /\ calculated_pr # page_rank

\* |a - b| <= 0.001: for a difference num/den, 1000 * num <= den.
WithinTolerance(a, b) ==
    LET diff == RatSub(a, b)
    IN  Abs(diff[1]) <= diff[2] \div 1000

AllWithinTolerance == \A p \in Keys : WithinTolerance(page_rank[p], calculated_pr[p])

\* C8: after a sweep the new ranks are adopted; the function returns if every
\* page's change is <= 0.001 and runs another sweep otherwise, and it returns
\* at no other point.
C8_StopsAtFirstQuietSweep ==
    [][/\ pc = "compare" =>
            /\ page_rank' = calculated_pr
            /\ pc' = "returned" <=> AllWithinTolerance
            /\ pc' = "sweep" <=> ~AllWithinTolerance
       /\ pc' = "returned" => pc \in {"compare", "returned"}]_vars

C8_Witness ==
    /\ pc = "compare"
    /\ NumPages = 3
    /\ WithinTolerance(page_rank[3], calculated_pr[3])
    /\ ~WithinTolerance(page_rank[1], calculated_pr[1])

Exited == pc = "returned"

\* the model's arithmetic range is used up before the next sweep
OutOfRange == pc = "sweep" /\ ~InRange(page_rank)

\* C9 as claimed: for every damping factor in [0,1] the loop eventually exits.
C9_AlwaysExits ==
    <>(Exited \/ OutOfRange)

\* C9 amended: for every damping factor in [0,1) the loop eventually exits
\* (damping_factor never changes, so the case d = 1 is set aside inside <>).
C9_ExitsBelowOne ==
    <>(Exited \/ damping_factor = One)

C9_Witness ==
    /\ pc = "returned"
    /\ NumPages = 3
    /\ damping_factor = Rat(1, 4)
    /\ \E p, q \in Keys : page_rank[p] # page_rank[q]

====
